---------------------------- MODULE Spec2Model ----------------------------
(***************************************************************************)
(* The `env` command of fnm (src/src/commands/env.rs).                     *)
(*                                                                         *)
(* Several invocations of `fnm env` run as independent OS processes that   *)
(* share the system temporary directory and the wall clock.  Each one      *)
(* warns about --multi, resolves the shell dialect, creates its multishell *)
(* symlink (make_symlink) and prints the activation script line by line.   *)
(*                                                                         *)
(* Text (paths, names, values) is a sequence of string tokens, so that     *)
(* formatting and joining are computed, not assumed.  Paths are taken to   *)
(* be valid Unicode (to_str().unwrap() does not panic) and standard output *)
(* to be writable (println! does not panic).                               *)
(***************************************************************************)
EXTENDS Integers, Sequences, FiniteSets, TLC

(* ------------------------------ bounds --------------------------------- *)

\* Number of concurrently modelled invocations.
NumProcs == 2
\* Process identifiers are drawn from 1..MaxPid (two invocations may share
\* one: separate PID namespaces over one temporary directory).
MaxPid == 2
\* The millisecond clock runs over 0..MaxClock.
MaxClock == 1
\* Entries other programs may create in the temporary directory.
MaxExternal == 1
\* The loop-iteration counter saturates here (the loop itself goes on).
MaxRetries == 2

Procs == 1..NumProcs
Pids == 1..MaxPid
None == "None"
NotCalled == "NotCalled"

(* --------------------------- collaborators ----------------------------- *)

\* crate::shell::AVAILABLE_SHELLS: the dialects accepted by --shell.  The
\* list itself lives in crate::shell; these are the dialects this file names
\* (shell::Bash, shell::WindowsCmd).
AVAILABLE_SHELLS == <<"bash", "windows_cmd">>

Shells == {AVAILABLE_SHELLS[i] : i \in 1..Len(AVAILABLE_SHELLS)}

\* The FnmConfig handed to apply; read-only.
config ==
    [ base_dir            |-> <<"/opt/versions">>,
      log_level           |-> <<"info">>,
      node_dist_mirror    |-> <<"https://nodejs.org/dist">>,
      default_version_dir |-> <<"/opt/versions", "/", "aliases", "/", "default">> ]

\* std::env::temp_dir()
system_temp_dir == <<"/tmp">>

\* Path::join
PathJoin(base, child) == base \o <<"/">> \o child

Digit(d) ==
    CASE d = 0 -> "0" [] d = 1 -> "1" [] d = 2 -> "2" [] d = 3 -> "3"
      [] d = 4 -> "4" [] d = 5 -> "5" [] d = 6 -> "6" [] d = 7 -> "7"
      [] d = 8 -> "8" [] d = 9 -> "9"

\* format!("{}", n) of a non-negative integer: its decimal digits.
RECURSIVE Decimal(_)
Decimal(n) ==
    IF n < 10 THEN <<Digit(n)>>
    ELSE Decimal(n \div 10) \o <<Digit(n % 10)>>

\* A mis-formatted name: the process identifier is left out.
generate_symlink_path_no_pid(root, id, now) ==
    PathJoin(root, <<"fnm_multishell_">> \o Decimal(now))

\* generate_symlink_path, with process::id() = id and timestamp_millis() = now.
generate_symlink_path(root, id, now) ==
    PathJoin(root, <<"fnm_multishell_">> \o Decimal(id) \o <<"_">> \o Decimal(now))

\* Shell::path, Shell::set_env_var, Shell::use_on_cd: the statement a dialect
\* produces, kept as the call that produced it.
ShellPath(sh, dir) ==
    [stmt |-> "path", shell |-> sh, name |-> "PATH", value |-> dir]
ShellSetEnvVar(sh, n, v) ==
    [stmt |-> "set_env_var", shell |-> sh, name |-> n, value |-> v]
ShellUseOnCd(sh, cfg) ==
    [stmt |-> "use_on_cd", shell |-> sh, name |-> "", value |-> cfg.base_dir]

\* The --multi deprecation warning (written with outln!(config#Error, ..)).
MultiWarning == "warning: --multi is deprecated. This is now the default."

(* ------------------------------- state --------------------------------- *)

VARIABLES
    windows,        \* cfg!(windows) of the build
    target_exists,  \* whether config.default_version_dir() exists on disk
    clock,          \* chrono::Utc::now().timestamp_millis()
    fs,             \* the temporary directory: path -> entry
    external,       \* entries created so far by other programs
    pc,             \* each invocation's position in apply
    pid,            \* std::process::id() of each invocation
    shellArg,       \* self.shell
    multi,          \* self.multi
    use_on_cd,      \* self.use_on_cd
    shell,          \* the resolved dialect (local `shell`)
    inferred,       \* what infer_shell returned, NotCalled if never invoked
    temp_dir,       \* make_symlink's local `temp_dir` / apply's multishell_path
    retries,        \* iterations the while loop has taken (saturating)
    symlinkResult,  \* the Result symlink_dir returned
    stdout,         \* lines printed with println!
    stderr          \* lines printed to the diagnostic stream

vars == << windows, target_exists, clock, fs, external, pc, pid, shellArg, multi,
           use_on_cd, shell, inferred, temp_dir, retries, symlinkResult,
           stdout, stderr >>

shared == << windows, target_exists, clock, fs, external >>
args == << pid, shellArg, multi, use_on_cd >>

\* An entry of the temporary directory.  `by` records who created it.
Symlink(target, who) == [kind |-> "symlink", target |-> target, by |-> who]
Directory(who) == [kind |-> "dir", target |-> <<>>, by |-> who]

\* Path::exists: follows symbolic links, so a link whose target is missing
\* does not "exist".
PathExists(path) ==
    /\ path \in DOMAIN fs
    /\ fs[path].kind = "symlink" =>
         (fs[path].target = config.default_version_dir => target_exists)

Init ==
    /\ windows \in BOOLEAN
    /\ target_exists \in BOOLEAN
    /\ clock = 0
    /\ fs = << >>
    /\ external = 0
    /\ pc = [p \in Procs |-> "start"]
    /\ pid \in [Procs -> Pids]
    /\ shellArg \in [Procs -> Shells \cup {None}]
    /\ multi \in [Procs -> BOOLEAN]
    /\ use_on_cd \in [Procs -> BOOLEAN]
    \* invocations are interchangeable: each assignment of identifiers once
    /\ \A p \in Procs : p + 1 \in Procs => pid[p] <= pid[p + 1]
    /\ shell = [p \in Procs |-> None]
    /\ inferred = [p \in Procs |-> NotCalled]
    /\ temp_dir = [p \in Procs |-> << >>]
    /\ retries = [p \in Procs |-> 0]
    /\ symlinkResult = [p \in Procs |-> None]
    /\ stdout = [p \in Procs |-> << >>]
    /\ stderr = [p \in Procs |-> << >>]


(* ------------------------ the shared environment ----------------------- *)

\* The wall clock advances by a millisecond.
Tick ==
    /\ clock < MaxClock
    /\ clock' = clock + 1
    /\ UNCHANGED << windows, target_exists, fs, external, pc, args, shell,
                    inferred, temp_dir, retries, symlinkResult, stdout, stderr >>

\* Names another fnm (of a foreign PID namespace) or any other program may
\* have taken by now.  The last instant of the clock stands for all later
\* time and is never taken in advance.
ExternalPaths ==
    { generate_symlink_path(system_temp_dir, i, t) :
        i \in Pids, t \in { u \in 0..clock : u < MaxClock } }

\* Another program creates an entry in the temporary directory.
ExternalCreate ==
    /\ external < MaxExternal
    /\ \E path \in ExternalPaths :
       \E entry \in { Directory(0), Symlink(config.default_version_dir, 0) } :
          /\ path \notin DOMAIN fs
          /\ fs' = fs @@ (path :> entry)
    /\ external' = external + 1
    /\ UNCHANGED << windows, target_exists, clock, pc, args, shell, inferred,
                    temp_dir, retries, symlinkResult, stdout, stderr >>

(* ----------------------------- Env::apply ------------------------------ *)

\* crate::fs::symlink_dir(from, to), called by process `who`: the outcomes
\* of the single OS call.  It never replaces an entry; it may fail for
\* reasons of its own (permissions, unsupported filesystem).
symlink_dir(from, to, who) ==
    IF to \in DOMAIN fs
    THEN { [res |-> "Err", fs |-> fs] }
    ELSE { [res |-> "Ok", fs |-> fs @@ (to :> Symlink(from, who))],
           [res |-> "Err", fs |-> fs] }

\* crate::shell::infer_shell(): a dialect, or None.
infer_shell == Shells \cup {None}

\* The warning goes where the script goes.
WarnMultiToStdout(p) ==
    /\ pc[p] = "start"
    /\ stdout' = [stdout EXCEPT ![p] =
                    IF multi[p]
                    THEN Append(@, ShellSetEnvVar(None, MultiWarning, << >>))
                    ELSE @]
    /\ pc' = [pc EXCEPT ![p] = "resolve"]
    /\ UNCHANGED << shared, args, shell, inferred, temp_dir, retries,
                    symlinkResult, stderr >>

\* if self.multi { outln!(config#Error, ...) }
WarnMulti(p) ==
    /\ pc[p] = "start"
    /\ stderr' = [stderr EXCEPT ![p] =
                    IF multi[p] THEN Append(@, MultiWarning) ELSE @]
    /\ pc' = [pc EXCEPT ![p] = "resolve"]
    /\ UNCHANGED << shared, args, shell, inferred, temp_dir, retries,
                    symlinkResult, stdout >>

\* Eager: self.shell.or(infer_shell()) evaluates the inference first.
ResolveShellEager(p) ==
    /\ pc[p] = "resolve"
    /\ \E r \in infer_shell :
         LET s == IF shellArg[p] # None THEN shellArg[p] ELSE r IN
         /\ inferred' = [inferred EXCEPT ![p] = r]
         /\ shell' = [shell EXCEPT ![p] = s]
         /\ pc' = [pc EXCEPT ![p] = IF s = None THEN "err" ELSE "make_symlink"]
    /\ UNCHANGED << shared, args, temp_dir, retries, symlinkResult, stdout, stderr >>

\* Falls back to the first dialect when inference fails.
ResolveShellDefault(p) ==
    /\ pc[p] = "resolve"
    /\ IF shellArg[p] # None
       THEN /\ shell' = [shell EXCEPT ![p] = shellArg[p]]
            /\ UNCHANGED inferred
       ELSE \E r \in infer_shell :
                 /\ inferred' = [inferred EXCEPT ![p] = r]
                 /\ shell' = [shell EXCEPT ![p] =
                              IF r = None THEN AVAILABLE_SHELLS[1] ELSE r]
    /\ pc' = [pc EXCEPT ![p] = "make_symlink"]
    /\ UNCHANGED << shared, args, temp_dir, retries, symlinkResult, stdout, stderr >>

\* The `?` is missing: a failed inference is carried on into make_symlink.
ResolveShellDeferred(p) ==
    /\ pc[p] = "resolve"
    /\ IF shellArg[p] # None
       THEN /\ shell' = [shell EXCEPT ![p] = shellArg[p]]
            /\ UNCHANGED inferred
       ELSE \E r \in infer_shell :
                 /\ inferred' = [inferred EXCEPT ![p] = r]
                 /\ shell' = [shell EXCEPT ![p] = r]
    /\ pc' = [pc EXCEPT ![p] = "make_symlink"]
    /\ UNCHANGED << shared, args, temp_dir, retries, symlinkResult, stdout, stderr >>

\* let shell = self.shell.or_else(&infer_shell).context(CantInferShell)?;
ResolveShell(p) ==
    /\ pc[p] = "resolve"
    /\ IF shellArg[p] # None
       THEN /\ shell' = [shell EXCEPT ![p] = shellArg[p]]
            /\ pc' = [pc EXCEPT ![p] = "make_symlink"]
            /\ UNCHANGED inferred
       ELSE \E r \in infer_shell :
                 /\ inferred' = [inferred EXCEPT ![p] = r]
                 /\ shell' = [shell EXCEPT ![p] = r]
                 /\ pc' = [pc EXCEPT ![p] =
                             IF r = None THEN "err" ELSE "make_symlink"]
    /\ UNCHANGED << shared, args, temp_dir, retries, symlinkResult, stdout, stderr >>

(* ----------------------------- make_symlink ---------------------------- *)

\* let mut temp_dir = generate_symlink_path(&system_temp_dir);
GenerateCandidate(p) ==
    /\ pc[p] = "make_symlink"
    /\ temp_dir' = [temp_dir EXCEPT ![p] =
                      generate_symlink_path(system_temp_dir, pid[p], clock)]
    /\ pc' = [pc EXCEPT ![p] = "loop"]
    /\ UNCHANGED << shared, args, shell, inferred, retries, symlinkResult,
                    stdout, stderr >>

Bump(n) == IF n < MaxRetries THEN n + 1 ELSE MaxRetries

\* The loop keeps its first candidate instead of sampling a new one.
CollisionLoopNoResample(p) ==
    /\ pc[p] = "loop"
    /\ IF PathExists(temp_dir[p])
       THEN /\ retries' = [retries EXCEPT ![p] = Bump(@)]
            /\ UNCHANGED << pc, temp_dir >>
       ELSE /\ pc' = [pc EXCEPT ![p] = "symlink_dir"]
            /\ UNCHANGED << temp_dir, retries >>
    /\ UNCHANGED << shared, args, shell, inferred, symlinkResult, stdout, stderr >>

\* The loop gives up with a fatal error after one retry.
CollisionLoopCapped(p) ==
    /\ pc[p] = "loop"
    /\ IF PathExists(temp_dir[p])
       THEN IF retries[p] >= 1
            THEN /\ pc' = [pc EXCEPT ![p] = "panic"]
                 /\ UNCHANGED << temp_dir, retries >>
            ELSE /\ temp_dir' = [temp_dir EXCEPT ![p] =
                       generate_symlink_path(system_temp_dir, pid[p], clock)]
                 /\ retries' = [retries EXCEPT ![p] = Bump(@)]
                 /\ UNCHANGED pc
       ELSE /\ pc' = [pc EXCEPT ![p] = "symlink_dir"]
            /\ UNCHANGED << temp_dir, retries >>
    /\ UNCHANGED << shared, args, shell, inferred, symlinkResult, stdout, stderr >>

\* A candidate found to exist is removed and then used.
CollisionLoopRemoves(p) ==
    /\ pc[p] = "loop"
    /\ IF PathExists(temp_dir[p])
       THEN fs' = [path \in DOMAIN fs \ {temp_dir[p]} |-> fs[path]]
       ELSE UNCHANGED fs
    /\ pc' = [pc EXCEPT ![p] = "symlink_dir"]
    /\ UNCHANGED << windows, target_exists, clock, external, args, shell,
                    inferred, temp_dir, retries, symlinkResult, stdout, stderr >>

\* while temp_dir.exists() { temp_dir = generate_symlink_path(..); }
CollisionLoop(p) ==
    /\ pc[p] = "loop"
    /\ IF PathExists(temp_dir[p])
       THEN /\ temp_dir' = [temp_dir EXCEPT ![p] =
                  generate_symlink_path(system_temp_dir, pid[p], clock)]
            /\ retries' = [retries EXCEPT ![p] = Bump(@)]
            /\ UNCHANGED pc
       ELSE /\ pc' = [pc EXCEPT ![p] = "symlink_dir"]
            /\ UNCHANGED << temp_dir, retries >>
    /\ UNCHANGED << shared, args, shell, inferred, symlinkResult, stdout, stderr >>

\* The link is made to the base directory.
CreateSymlinkWrongTarget(p) ==
    /\ pc[p] = "symlink_dir"
    /\ \E o \in symlink_dir(config.base_dir, temp_dir[p], p) :
         /\ fs' = o.fs
         /\ symlinkResult' = [symlinkResult EXCEPT ![p] = o.res]
         /\ pc' = [pc EXCEPT ![p] = IF o.res = "Ok" THEN "print" ELSE "panic"]
    /\ UNCHANGED << windows, target_exists, clock, external, args, shell,
                    inferred, temp_dir, retries, stdout, stderr >>

\* The Result of symlink_dir is dropped instead of unwrapped.
CreateSymlinkIgnoreErr(p) ==
    /\ pc[p] = "symlink_dir"
    /\ \E o \in symlink_dir(config.default_version_dir, temp_dir[p], p) :
         /\ fs' = o.fs
         /\ symlinkResult' = [symlinkResult EXCEPT ![p] = o.res]
         /\ pc' = [pc EXCEPT ![p] = "print"]
    /\ UNCHANGED << windows, target_exists, clock, external, args, shell,
                    inferred, temp_dir, retries, stdout, stderr >>

\* The link is forced: an entry already at the path is replaced.
CreateSymlinkForced(p) ==
    /\ pc[p] = "symlink_dir"
    /\ fs' = [path \in DOMAIN fs \cup {temp_dir[p]} |->
                IF path = temp_dir[p]
                THEN Symlink(config.default_version_dir, p)
                ELSE fs[path]]
    /\ symlinkResult' = [symlinkResult EXCEPT ![p] = "Ok"]
    /\ pc' = [pc EXCEPT ![p] = "print"]
    /\ UNCHANGED << windows, target_exists, clock, external, args, shell,
                    inferred, temp_dir, retries, stdout, stderr >>

\* symlink_dir(config.default_version_dir(), &temp_dir).expect(..); temp_dir
CreateSymlink(p) ==
    /\ pc[p] = "symlink_dir"
    /\ \E o \in symlink_dir(config.default_version_dir, temp_dir[p], p) :
         /\ fs' = o.fs
         /\ symlinkResult' = [symlinkResult EXCEPT ![p] = o.res]
         /\ pc' = [pc EXCEPT ![p] = IF o.res = "Ok" THEN "print" ELSE "panic"]
    /\ UNCHANGED << windows, target_exists, clock, external, args, shell,
                    inferred, temp_dir, retries, stdout, stderr >>

(* ------------------------- printing the script ------------------------- *)

\* The bin child is taken on every platform.
binary_path_always_bin(multishell_path) ==
    multishell_path \o << "/", "bin" >>

\* let binary_path = if cfg!(windows) { multishell_path.clone() }
\*                   else { multishell_path.join("bin") };
binary_path(multishell_path) ==
    IF windows THEN multishell_path ELSE PathJoin(multishell_path, <<"bin">>)

\* The five println! of the environment, in the order they are written.
EnvLines(sh, multishell_path) ==
    << ShellPath(sh, binary_path(multishell_path)),
       ShellSetEnvVar(sh, "FNM_MULTISHELL_PATH", multishell_path),
       ShellSetEnvVar(sh, "FNM_DIR", config.base_dir),
       ShellSetEnvVar(sh, "FNM_LOGLEVEL", config.log_level),
       ShellSetEnvVar(sh, "FNM_NODE_DIST_MIRROR", config.node_dist_mirror) >>

\* if self.use_on_cd { println!("{}", shell.use_on_cd(&config)); }
HookLines(sh, flag) ==
    IF flag THEN << ShellUseOnCd(sh, config) >> ELSE << >>

\* FNM_DIR is printed before FNM_MULTISHELL_PATH.
PrintScriptReordered(p) ==
    /\ pc[p] = "print"
    /\ LET l == EnvLines(shell[p], temp_dir[p]) IN
       stdout' = [stdout EXCEPT ![p] =
                    @ \o << l[1], l[3], l[2], l[4], l[5] >>
                      \o HookLines(shell[p], use_on_cd[p])]
    /\ pc' = [pc EXCEPT ![p] = "done"]
    /\ UNCHANGED << shared, args, shell, inferred, temp_dir, retries,
                    symlinkResult, stderr >>

\* The hook fragment is printed whatever the flag says.
PrintScriptHookAlways(p) ==
    /\ pc[p] = "print"
    /\ stdout' = [stdout EXCEPT ![p] =
                    @ \o EnvLines(shell[p], temp_dir[p])
                      \o HookLines(shell[p], TRUE)]
    /\ pc' = [pc EXCEPT ![p] = "done"]
    /\ UNCHANGED << shared, args, shell, inferred, temp_dir, retries,
                    symlinkResult, stderr >>

\* The rest of apply once multishell_path is known: the println! statements
\* one after the other, then Ok(()).  Nothing here reads or writes what the
\* invocations share, so the lines are written in one step.
PrintScript(p) ==
    /\ pc[p] = "print"
    /\ stdout' = [stdout EXCEPT ![p] =
                    @ \o EnvLines(shell[p], temp_dir[p])
                      \o HookLines(shell[p], use_on_cd[p])]
    /\ pc' = [pc EXCEPT ![p] = "done"]
    /\ UNCHANGED << shared, args, shell, inferred, temp_dir, retries,
                    symlinkResult, stderr >>

(* --------------------------- specifications ---------------------------- *)

\* One step of invocation p.
Step(p) ==
    \/ WarnMulti(p)
    \/ ResolveShell(p)
    \/ GenerateCandidate(p)
    \/ CollisionLoop(p)
    \/ CreateSymlink(p)
    \/ PrintScript(p)

Next ==
    \/ Tick
    \/ ExternalCreate
    \/ \E p \in Procs : Step(p)

Spec == Init /\ [][Next]_vars

\* The conditions under which make_symlink is expected to finish: the
\* scheduler runs every invocation, the clock advances, other programs
\* create only finitely many entries (MaxExternal), and the invocations have
\* the distinct process identifiers one operating system gives them.  The
\* flags make_symlink does not read are left unset.
LiveInit ==
    /\ Init
    /\ \A p, q \in Procs : p # q => pid[p] # pid[q]
    /\ \A p \in Procs : ~multi[p] /\ ~use_on_cd[p]

LiveSpec ==
    /\ LiveInit
    /\ [][Next]_vars
    /\ WF_vars(Tick)
    /\ \A p \in Procs : WF_vars(Step(p))

(* ------------------------------ properties ----------------------------- *)

\* make_symlink has returned to invocation p.
Returned(p) == symlinkResult[p] = "Ok"

Succeeded(p) == pc[p] = "done"

\* The lines of standard output that are the hook fragment.
HookPositions(p) ==
    { i \in 1..Len(stdout[p]) : stdout[p][i].stmt = "use_on_cd" }

\* C1: a successful invocation without the hook flag has written exactly
\* five lines: the path statement of the binary directory, then
\* FNM_MULTISHELL_PATH (the path make_symlink returned), FNM_DIR,
\* FNM_LOGLEVEL and FNM_NODE_DIST_MIRROR, in this order.
C1_FiveLinesInOrder ==
    \A p \in Procs :
        (Succeeded(p) /\ ~use_on_cd[p]) =>
            /\ Len(stdout[p]) = 5
            /\ stdout[p][1] = ShellPath(shell[p], binary_path(temp_dir[p]))
            /\ stdout[p][2] =
                 ShellSetEnvVar(shell[p], "FNM_MULTISHELL_PATH", temp_dir[p])
            /\ stdout[p][3] = ShellSetEnvVar(shell[p], "FNM_DIR", config.base_dir)
            /\ stdout[p][4] =
                 ShellSetEnvVar(shell[p], "FNM_LOGLEVEL", config.log_level)
            /\ stdout[p][5] =
                 ShellSetEnvVar(shell[p], "FNM_NODE_DIST_MIRROR",
                                config.node_dist_mirror)

C1_Witness ==
    \E p \in Procs :
        Succeeded(p) /\ ~use_on_cd[p] /\ Returned(p) /\ Len(stdout[p]) = 5

\* C2: the hook fragment is on standard output iff the invocation succeeded
\* with use_on_cd set; then it is there once, as the sixth and last line.
C2_HookIffFlag ==
    \A p \in Procs :
        IF Succeeded(p) /\ use_on_cd[p]
        THEN /\ Len(stdout[p]) = 6
             /\ HookPositions(p) = {6}
             /\ stdout[p][6] = ShellUseOnCd(shell[p], config)
        ELSE HookPositions(p) = {}

C2_Witness ==
    \E p, q \in Procs :
        /\ Succeeded(p) /\ use_on_cd[p] /\ Len(stdout[p]) = 6
        /\ Succeeded(q) /\ ~use_on_cd[q]

\* C3: with an explicit dialect infer_shell is never invoked, the resolved
\* dialect is the supplied one and the invocation never ends in
\* CantInferShell.
C3_ExplicitShellNoInference ==
    \A p \in Procs :
        shellArg[p] # None =>
            /\ inferred[p] = NotCalled
            /\ pc[p] # "err"
            /\ pc[p] \notin {"start", "resolve"} => shell[p] = shellArg[p]

C3_Witness ==
    \E p \in Procs : shellArg[p] # None /\ Succeeded(p) /\ shell[p] = shellArg[p]

\* C4: without an explicit dialect, once inference has returned None the
\* invocation has ended in CantInferShell, has no dialect and has written
\* nothing to standard output.
C4_InferenceFailureIsFatal ==
    \A p \in Procs :
        (shellArg[p] = None /\ inferred[p] = None) =>
            /\ pc[p] = "err"
            /\ shell[p] = None
            /\ stdout[p] = << >>
            /\ symlinkResult[p] = None

C4_Witness ==
    \E p \in Procs : shellArg[p] = None /\ inferred[p] = None /\ pc[p] = "err"

\* C5: once make_symlink has returned a path, an entry exists at that path,
\* and it is a symlink to config.default_version_dir(); in every interleaving
\* with the other invocations.
C5_ReturnedPathIsTheSymlink ==
    \A p \in Procs :
        Returned(p) =>
            /\ temp_dir[p] \in DOMAIN fs
            /\ fs[temp_dir[p]].kind = "symlink"
            /\ fs[temp_dir[p]].target = config.default_version_dir

C5_Witness ==
    \E p, q \in Procs : p # q /\ Returned(p) /\ Returned(q) /\ external > 0

\* C6: once symlink_dir has failed, the invocation has aborted (panic) and
\* its standard output is empty, now and ever after.
C6_SymlinkFailureAborts ==
    \A p \in Procs :
        symlinkResult[p] = "Err" => pc[p] = "panic" /\ stdout[p] = << >>

\* The failure is the lost race: the entry appeared after the existence check.
C6_Witness ==
    \E p \in Procs :
        /\ symlinkResult[p] = "Err"
        /\ PathExists(temp_dir[p])
        /\ pc[p] = "panic"

\* C7: two invocations with different process identifiers never hold the
\* same candidate path, and so never get the same path back from
\* make_symlink, whatever the timestamps they sample.
C7_DistinctPidsDistinctPaths ==
    \A p, q \in Procs :
        (p # q /\ pid[p] # pid[q] /\ temp_dir[p] # << >> /\ temp_dir[q] # << >>)
            => temp_dir[p] # temp_dir[q]

\* Two invocations that sampled the same millisecond both got a path back.
C7_Witness ==
    \E p, q \in Procs : \E t \in 0..MaxClock :
        /\ pid[p] # pid[q]
        /\ Returned(p) /\ Returned(q)
        /\ temp_dir[p] = generate_symlink_path(system_temp_dir, pid[p], t)
        /\ temp_dir[q] = generate_symlink_path(system_temp_dir, pid[q], t)

\* C8: the loop takes another candidate only while the current one exists,
\* and under LiveSpec's conditions every invocation in the loop leaves it
\* and goes on to create the symlink.
C8_LoopTerminates ==
    /\ [][\A p \in Procs :
            (pc[p] = "loop" /\ ~PathExists(temp_dir[p]))
                => (temp_dir'[p] = temp_dir[p] /\ retries'[p] = retries[p])]_vars
    /\ \A p \in Procs : (pc[p] = "loop") ~> (symlinkResult[p] # None)

\* An invocation has retried, has left the loop and got its path.
C8_Witness ==
    \E p \in Procs : Returned(p) /\ retries[p] > 0

\* C9, as claimed: the loop retries at most a fixed number of times (any
\* number below the counter's saturation point).
C9_RetriesBounded ==
    \A p \in Procs : retries[p] < MaxRetries

\* C9, amended: the loop has no retry bound; an invocation aborts only
\* because symlink_dir failed, never because of the retries it has taken.
C9_NoRetryCap ==
    \A p \in Procs :
        pc[p] = "panic" => symlinkResult[p] = "Err"

C9_Witness ==
    \E p \in Procs :
        pc[p] = "loop" /\ retries[p] = MaxRetries /\ PathExists(temp_dir[p])

\* replace a leading `from` of text v by `to`
Rebase(v, from, to) ==
    IF Len(v) >= Len(from) /\ SubSeq(v, 1, Len(from)) = from
    THEN to \o SubSeq(v, Len(from) + 1, Len(v))
    ELSE v

RebaseLines(lines, from, to) ==
    [i \in 1..Len(lines) |->
        [lines[i] EXCEPT !.value = Rebase(@, from, to)]]

\* C10: two successful invocations with the same dialect and hook flag, one
\* with --multi and one without, have the same standard output up to their
\* indirection paths; the one with --multi has the warning, and nothing
\* else, on the diagnostic stream.
C10_MultiLeavesStdoutAlone ==
    \A p, q \in Procs :
        ( /\ Succeeded(p) /\ Succeeded(q)
          /\ shell[p] = shell[q] /\ use_on_cd[p] = use_on_cd[q]
          /\ multi[p] /\ ~multi[q] )
        => /\ RebaseLines(stdout[p], temp_dir[p], temp_dir[q]) = stdout[q]
           /\ stderr[p] = << MultiWarning >>
           /\ stderr[q] = << >>

C10_Witness ==
    \E p, q \in Procs :
        /\ Succeeded(p) /\ Succeeded(q)
        /\ shell[p] = shell[q] /\ use_on_cd[p] = use_on_cd[q]
        /\ multi[p] /\ ~multi[q]
        /\ Len(stdout[p]) >= 5

(* ----------------------- the CantInferShell message -------------------- *)

\* Vec::join: the items with `sep` between them.
RECURSIVE Join(_, _)
Join(items, sep) ==
    IF Len(items) = 0 THEN << >>
    ELSE IF Len(items) = 1 THEN items[1]
    ELSE items[1] \o sep \o Join(Tail(items), sep)

\* The list stops one short of the end of the dialects.
shells_as_string_drops_last(shells) ==
    Join([i \in 1..(Len(shells) - 1) |-> << "* ", shells[i] >>], << "\n" >>)

\* shells_as_string, over the list it iterates:
\* iter().map(|x| format!("* {}", x)).collect::<Vec<_>>().join("\n")
shells_as_string(shells) ==
    Join([i \in 1..Len(shells) |-> << "* ", shells[i] >>], << "\n" >>)

\* The Display of Error::CantInferShell: "{}\n{}\n{}\n{}".
CantInferShellDisplay ==
    << "Can't infer shell!", "\n",
       "fnm can't infer your shell based on the process tree.", "\n",
       "Maybe it is unsupported? we support the following shells:", "\n" >>
    \o shells_as_string(AVAILABLE_SHELLS)

\* #[structopt(possible_values = AVAILABLE_SHELLS)]: the values --shell takes.
possible_values == Shells

\* The positions of a message at which dialect d is listed as a bullet.
Listed(msg, d) ==
    { i \in 1..(Len(msg) - 1) : msg[i] = "* " /\ msg[i + 1] = d }

\* All bullets of a message.
Bullets(msg) == { i \in 1..Len(msg) : msg[i] = "* " }

\* C11: the message of an invocation that ended in CantInferShell lists
\* every value --shell accepts exactly once and nothing else, one bullet per
\* line; so whatever dialect an invocation was given is in the list.
C11_MessageListsAcceptedShells ==
    \A p \in Procs :
        LET msg == CantInferShellDisplay IN
        /\ pc[p] = "err" =>
             /\ \A d \in possible_values : Cardinality(Listed(msg, d)) = 1
             /\ Cardinality(Bullets(msg)) = Cardinality(possible_values)
             /\ \A i \in Bullets(msg) :
                  /\ i < Len(msg) /\ msg[i + 1] \in possible_values
                  /\ msg[i - 1] = "\n"
        /\ shellArg[p] # None => Listed(msg, shellArg[p]) # {}

C11_Witness ==
    \E p, q \in Procs :
        /\ pc[p] = "err" /\ inferred[p] = None
        /\ shellArg[q] = AVAILABLE_SHELLS[Len(AVAILABLE_SHELLS)]

(* ------------------- races, order and frame conditions ----------------- *)

\* Invocation p has a path back from make_symlink and goes on with it.
HoldsPath(p) == pc[p] \in {"print", "done"}

\* The entries of the temporary directory that invocation p created.
CreatedBy(p) == { path \in DOMAIN fs : fs[path].by = p }

\* C12: a path is held by at most one invocation, and that invocation is
\* the one that created the symlink there; an invocation whose symlink_dir
\* failed has aborted, holds no path and has left the other's entry as the
\* other created it.
C12_PathGoesToItsCreator ==
    \A p \in Procs :
        /\ HoldsPath(p) =>
             /\ temp_dir[p] \in DOMAIN fs
             /\ fs[temp_dir[p]] = Symlink(config.default_version_dir, p)
             /\ \A q \in Procs \ {p} : HoldsPath(q) => temp_dir[q] # temp_dir[p]
        /\ symlinkResult[p] = "Err" =>
             /\ pc[p] = "panic"
             /\ CreatedBy(p) = {}
             /\ \A q \in Procs \ {p} :
                  (Returned(q) /\ temp_dir[q] = temp_dir[p])
                      => fs[temp_dir[p]].by = q

\* Both passed the existence check for the same candidate (the winner's link
\* would have been seen by exists()), one created it, the other aborted.
C12_Witness ==
    \E p, q \in Procs :
        /\ p # q /\ target_exists
        /\ temp_dir[p] = temp_dir[q]
        /\ HoldsPath(p) /\ fs[temp_dir[p]].by = p
        /\ symlinkResult[q] = "Err" /\ pc[q] = "panic" /\ retries[q] = 0

\* C13: resolution comes before symlink creation, which comes before the
\* first line: an invocation that ended in CantInferShell has no candidate,
\* has not called symlink_dir and has created no entry; an invocation with a
\* candidate has a dialect; and an invocation with any line on standard
\* output holds the symlink those lines name.
C13_ResolveThenSymlinkThenPrint ==
    \A p \in Procs :
        /\ (pc[p] = "err" \/ shell[p] = None) =>
             /\ temp_dir[p] = << >>
             /\ symlinkResult[p] = None
             /\ CreatedBy(p) = {}
             /\ stdout[p] = << >>
        /\ stdout[p] # << >> =>
             /\ Returned(p)
             /\ temp_dir[p] \in DOMAIN fs
             /\ fs[temp_dir[p]].kind = "symlink"
             /\ stdout[p][2].value = temp_dir[p]

C13_Witness ==
    \E p, q \in Procs :
        /\ pc[p] = "err" /\ CreatedBy(p) = {}
        /\ stdout[q] # << >> /\ Returned(q)

\* C14: an invocation has created at most one entry, exactly one once it
\* has succeeded, and no step removes or changes an entry that exists.
C14_CreatesOneChangesNone ==
    /\ [](\A p \in Procs :
            /\ Cardinality(CreatedBy(p)) <= 1
            /\ Succeeded(p) => CreatedBy(p) = {temp_dir[p]}
            /\ ~Returned(p) => CreatedBy(p) = {})
    /\ [][\A path \in DOMAIN fs :
            path \in DOMAIN fs' /\ fs'[path] = fs[path]]_vars

\* Two invocations have succeeded beside an entry of another program.
C14_Witness ==
    \E p, q \in Procs :
        /\ p # q /\ Succeeded(p) /\ Succeeded(q)
        /\ \E path \in DOMAIN fs : fs[path].by = 0
        /\ Cardinality(DOMAIN fs) = 3

\* C15: the path statement names the indirection path itself on Windows and
\* its child `bin` elsewhere; FNM_MULTISHELL_PATH is bound to the indirection
\* path itself on both; and that path is the one make_symlink returned to
\* this invocation.
C15_BinaryPathByPlatform ==
    \A p \in Procs :
        stdout[p] # << >> =>
            /\ stdout[p][1].stmt = "path"
            /\ stdout[p][1].value =
                 IF windows THEN temp_dir[p] ELSE temp_dir[p] \o << "/", "bin" >>
            /\ stdout[p][2].name = "FNM_MULTISHELL_PATH"
            /\ stdout[p][2].value = temp_dir[p]
            /\ temp_dir[p] \in CreatedBy(p)

C15_Witness ==
    \E p \in Procs :
        /\ windows /\ Succeeded(p)
        /\ stdout[p][1].value = temp_dir[p]
        /\ stdout[p][2].value = temp_dir[p]

=============================================================================
